---- MODULE Spec2Model ----
(***************************************************************************)
(* Model of the adaptive routing engine of the Surooh AI provider bridge   *)
(* (src/ai-bridge/bridge_enhanced.py): task classification, performance    *)
(* tracking with cooldown, the task cache, the committee and the request   *)
(* handler Handler.do_POST.                                                *)
(*                                                                         *)
(* Text is modelled as a sequence of one-character strings.  Time is the   *)
(* wall clock time.time() in seconds.  Weights are in tenths (10 = 1.0).   *)
(***************************************************************************)
EXTENDS Integers, Sequences, FiniteSets, TLC

VARIABLES
    now,        \* time.time()
    mode,       \* choose_mode(): BRIDGE_MODE / default_mode, fixed per process
    lock,       \* perf_lock: 0 when free, else the worker holding it
    pc,         \* pc[w]: where worker w is in its handler
    req,        \* req[w]: the locals of the handler worker w is running
    stats,      \* perf_data["provider_stats"]
    cooldown,   \* perf_data["provider_cooldown"] (0: no entry)
    cache,      \* perf_data["task_cache"]
    nticks,     \* number of steps the clock has made so far
    calls0,     \* number of adapter calls recorded in the initial state
    streak,     \* history: failures of p recorded since its last success
    tripAt,     \* history: time of the latest failure of p that was 3rd or later in a row
    third,      \* history: time of the latest failure of p that was exactly 3rd in a row
    ncalls,     \* history: the adapter calls to p that have returned or raised
    cm_outputs, \* committee reduction on its own: the attempts
    cm_result,  \* committee reduction on its own: the pair returned
    cl_prompt,  \* classification on its own: the prompt
    cl_result,  \* classification on its own: the category returned
    lat_window, \* latency window on its own: stats["latency"] of one provider
    lat_history,\* history: every record_provider_result call of that provider, in order
    adj,        \* weight adjustment on its own: inputs and outcome of the loop body
    fp_in,      \* fingerprinting on its own: the two requests
    fp_out      \* fingerprinting on its own: their categories and fingerprints

vars == <<now, mode, lock, pc, req, stats, cooldown, cache, nticks, calls0,
          streak, tripAt, third, ncalls, cm_outputs, cm_result, cl_prompt, cl_result,
          lat_window, lat_history, adj, fp_in, fp_out>>

reqVars == <<now, nticks, mode, calls0, lock, pc, req, stats, cooldown, cache, streak, tripAt, third, ncalls>>
cmVars == <<cm_outputs, cm_result>>
clVars == <<cl_prompt, cl_result>>
latVars == <<lat_window, lat_history, adj>>
fpVars == <<fp_in, fp_out>>

----------------------------------------------------------------------------
(* Bounds *)

MaxCalls == 5
MaxTicks == 1
MaxAttempts == 3
MaxPromptLen == 4
MaxRecords == 3
MaxSuffix == 2
NumThreads == 2

(* Program constants *)

COOLDOWN_DURATION == 300
CACHE_TTL == 3600
FAIL_THRESHOLD == 3
FINGERPRINT_CHARS == 500
LATENCY_WINDOW == 100
HTTP_OK == 200
HTTP_ACCEPTED == 202
HTTP_BAD_REQUEST == 400
HTTP_ERROR == 500
NumWorkers == 1

\* the workers running a handler: one for the server as started, two where the
\* handler's locking is examined under threads
Workers == DOMAIN pc

----------------------------------------------------------------------------
(* Configuration: providers_config.json and routing_policies.yaml *)

\* CONFIG["providers"].keys(), in declared order
Providers == <<"llama", "mistral", "openai", "claude">>

ProviderSet == {Providers[i] : i \in 1..Len(Providers)}

\* CONFIG["thresholds"]["sensitive_tasks"]
SensitiveTasks == << <<"s", "x">> >>

\* ROUTING["routing"]["classify_task"]: categories in declared order, each
\* with its keywords in declared order
ClassifyMap == <<
    [category |-> "coding",       keywords |-> << <<"P", "y">>, <<"d", "e", "f">> >>],
    [category |-> "conversation", keywords |-> << <<"h", "i">>, <<"y", "o">> >>] >>

\* the categories with an entry in ROUTING["routing"]["weights"]
WeightsDeclared == {"coding"}

----------------------------------------------------------------------------
(* Text *)

LowerChar(c) ==
    CASE c = "P" -> "p"
      [] c = "Y" -> "y"
      [] c = "H" -> "h"
      [] c = "I" -> "i"
      [] c = "D" -> "d"
      [] OTHER -> c

\* str.lower()
Lower(s) == [i \in 1..Len(s) |-> LowerChar(s[i])]

\* s[:n]
Take(s, n) == IF Len(s) <= n THEN s ELSE SubSeq(s, 1, n)

\* k in s
Contains(s, k) ==
    \E i \in 0..(Len(s) - Len(k)) : \A j \in 1..Len(k) : s[i + j] = k[j]

----------------------------------------------------------------------------
(* Pure functions of bridge_enhanced.py *)

\* the loop of classify_task with the categories visited last to first
ClassifyFrom_last(prompt_lower, i) ==
    LET M == {j \in i..Len(ClassifyMap) :
                 \E k \in 1..Len(ClassifyMap[j].keywords) :
                     Contains(prompt_lower, Lower(ClassifyMap[j].keywords[k]))}
    IN  IF M = {} THEN "analysis"
        ELSE ClassifyMap[CHOOSE j \in M : \A m \in M : m <= j].category

\* the loop of classify_task over the categories from the i-th on
RECURSIVE ClassifyFrom(_, _)
ClassifyFrom(prompt_lower, i) ==
    IF i > Len(ClassifyMap) THEN "analysis"
    ELSE IF \E k \in 1..Len(ClassifyMap[i].keywords) :
                Contains(prompt_lower, Lower(ClassifyMap[i].keywords[k]))
         THEN ClassifyMap[i].category
         ELSE ClassifyFrom(prompt_lower, i + 1)

\* classify_task without prompt.lower()
classify_task_exact(prompt) ==
    IF prompt = <<>> THEN "analysis" ELSE ClassifyFrom(prompt, 1)

classify_task(prompt) ==
    IF prompt = <<>> THEN "analysis" ELSE ClassifyFrom(Lower(prompt), 1)

\* the fingerprint taken over the whole prompt
task_fingerprint_whole(prompt, task_type) == <<task_type, prompt>>

\* sha256(f"{task_type}:{prompt[:500]}"): sha256 is taken to be injective on the
\* text it hashes, and no category name holds a colon, so that the text is read
\* back as one pair of category and prefix
task_fingerprint(prompt, task_type) == <<task_type, Take(prompt, FINGERPRINT_CHARS)>>

\* the body of is_provider_available, given the cooldown table and the clock
is_provider_available(cd, provider, t) == t > cd[provider]

\* record_provider_result with the cooldown applied at the third failure only
record_provider_result_once(st, cd, provider, success, t) ==
    IF success
    THEN [stats |-> [st EXCEPT ![provider].success = @ + 1,
                               ![provider].consecutive_fails = 0],
          cooldown |-> cd]
    ELSE LET fails == st[provider].consecutive_fails + 1 IN
         [stats |-> [st EXCEPT ![provider].fail = @ + 1,
                               ![provider].consecutive_fails = fails],
          cooldown |-> IF fails = FAIL_THRESHOLD
                       THEN [cd EXCEPT ![provider] = t + COOLDOWN_DURATION]
                       ELSE cd]

\* record_provider_result with a success that leaves consecutive_fails as it is
record_provider_result_keep(st, cd, provider, success, t) ==
    IF success
    THEN [stats |-> [st EXCEPT ![provider].success = @ + 1], cooldown |-> cd]
    ELSE LET fails == st[provider].consecutive_fails + 1 IN
         [stats |-> [st EXCEPT ![provider].fail = @ + 1,
                               ![provider].consecutive_fails = fails],
          cooldown |-> IF fails >= FAIL_THRESHOLD
                       THEN [cd EXCEPT ![provider] = t + COOLDOWN_DURATION]
                       ELSE cd]

\* record_provider_result with the counter starting anew once a cooldown has expired
record_provider_result_expiry(st, cd, provider, success, t) ==
    IF success
    THEN [stats |-> [st EXCEPT ![provider].success = @ + 1,
                               ![provider].consecutive_fails = 0],
          cooldown |-> cd]
    ELSE LET expired == cd[provider] # 0 /\ t > cd[provider]
             fails == IF expired THEN 1 ELSE st[provider].consecutive_fails + 1
         IN  [stats |-> [st EXCEPT ![provider].fail = @ + 1,
                                   ![provider].consecutive_fails = fails],
              cooldown |-> IF fails >= FAIL_THRESHOLD
                           THEN [cd EXCEPT ![provider] = t + COOLDOWN_DURATION]
                           ELSE cd]

\* record_provider_result with a success removing the cooldown entry
record_provider_result_clear(st, cd, provider, success, t) ==
    IF success
    THEN [stats |-> [st EXCEPT ![provider].success = @ + 1,
                               ![provider].consecutive_fails = 0],
          cooldown |-> [cd EXCEPT ![provider] = 0]]
    ELSE LET fails == st[provider].consecutive_fails + 1 IN
         [stats |-> [st EXCEPT ![provider].fail = @ + 1,
                               ![provider].consecutive_fails = fails],
          cooldown |-> IF fails >= FAIL_THRESHOLD
                       THEN [cd EXCEPT ![provider] = t + COOLDOWN_DURATION]
                       ELSE cd]

\* record_provider_result writing counters computed from a provider_stats
\* entry read before any call was recorded: the earlier updates are lost
record_provider_result_lost(st, cd, provider, success, t) ==
    IF success
    THEN [stats |-> [st EXCEPT ![provider].success = 1,
                               ![provider].consecutive_fails = 0],
          cooldown |-> cd]
    ELSE [stats |-> [st EXCEPT ![provider].fail = 1,
                               ![provider].consecutive_fails = 1],
          cooldown |-> cd]

\* the body of record_provider_result: the new provider_stats and provider_cooldown
record_provider_result(st, cd, provider, success, t) ==
    IF success
    THEN [stats |-> [st EXCEPT ![provider].success = @ + 1,
                               ![provider].consecutive_fails = 0],
          cooldown |-> cd]
    ELSE LET fails == st[provider].consecutive_fails + 1 IN
         [stats |-> [st EXCEPT ![provider].fail = @ + 1,
                               ![provider].consecutive_fails = fails],
          cooldown |-> IF fails >= FAIL_THRESHOLD
                       THEN [cd EXCEPT ![provider] = t + COOLDOWN_DURATION]
                       ELSE cd]

\* stats["latency"] after record_provider_result: a deque(maxlen=100) that is
\* appended to on a success only and drops its oldest element when full
append_latency(window, success, latency) ==
    IF ~success THEN window
    ELSE IF Len(window) >= LATENCY_WINDOW THEN Append(Tail(window), latency)
    ELSE Append(window, latency)

\* exact fractions n/d with d > 0, for the arithmetic of get_dynamic_weights
R(n, d) == [n |-> n, d |-> d]
RLe(a, b) == a.n * b.d <= b.n * a.d
RMax(a, b) == IF RLe(a, b) THEN b ELSE a
RMin(a, b) == IF RLe(a, b) THEN a ELSE b
RMul(a, b) == R(a.n * b.n, a.d * b.d)
RAdd(a, b) == R(a.n * b.d + b.n * a.d, a.d * b.d)

RECURSIVE SumSeq(_)
SumSeq(s) == IF s = <<>> THEN 0 ELSE Head(s) + SumSeq(Tail(s))

\* stats["success"] / total if total > 0 else 1.0
success_rate(success, fail) ==
    IF success + fail > 0 THEN R(success, success + fail) ELSE R(1, 1)

\* sum(latencies) / len(latencies) if latencies else 2.0
avg_latency(latencies) ==
    IF latencies = <<>> THEN R(2, 1) ELSE R(SumSeq(latencies), Len(latencies))

\* 3.0 / avg_latency raises ZeroDivisionError when the average is zero
DivisionRaises(avg) == avg.n = 0

\* max(0.5, min(1.5, 3.0 / avg_latency)), for an average above zero
latency_penalty(avg) == RMax(R(1, 2), RMin(R(3, 2), R(3 * avg.d, avg.n)))

\* the adjusted weight without the minimum of 0.01
dynamic_weight_unfloored(base_weight, rate, penalty) ==
    RMul(RMul(base_weight, rate), penalty)

\* max(0.01, base_weight * success_rate * latency_penalty)
dynamic_weight(base_weight, rate, penalty) ==
    RMax(R(1, 100), RMul(RMul(base_weight, rate), penalty))

\* v / total_weight if total_weight > 0
normalise(v, total_weight) ==
    IF total_weight.n > 0 THEN R(v.n * total_weight.d, v.d * total_weight.n) ELSE v

\* the fixed weights get_dynamic_weights returns for a category without weights
DefaultWeights == [p \in ProviderSet |->
    CASE p = "llama" -> 4 [] p = "mistral" -> 3 [] p = "openai" -> 2 [] p = "claude" -> 1]

\* max(available.items(), key=lambda x: x[1])[0]: the first of the greatest weight
RECURSIVE MaxWeight(_, _, _)
MaxWeight(weights, names, best) ==
    IF names = <<>> THEN best
    ELSE MaxWeight(weights, Tail(names),
                   IF weights[Head(names)] > weights[best] THEN Head(names) ELSE best)

\* any(s in (task_id + prompt) for s in sensitive_tasks)
IsSensitive(task_id, prompt) ==
    \E i \in 1..Len(SensitiveTasks) : Contains(task_id \o prompt, SensitiveTasks[i])

\* the cache check with the cooldown duration taken for the time to live
CacheHit_short(entry, t) == entry.present /\ (t - entry.ts) < COOLDOWN_DURATION

\* the cache check with an entry of age CACHE_TTL still served
CacheHit_inclusive(entry, t) == entry.present /\ (t - entry.ts) <= CACHE_TTL

\* cached and (time.time() - cached[1]) < CACHE_TTL
CacheHit(entry, t) == entry.present /\ (t - entry.ts) < CACHE_TTL

\* f'{{"error":"{str(e)}"}}'
ErrorBody(msg) == <<"{", "\"", "e", "r", "r", "o", "r", "\"", ":", "\"">> \o msg \o <<"\"", "}">>

\* '{"error":"no outputs"}'
NoOutputsBody == ErrorBody(<<"n", "o", " ", "o", "u", "t", "p", "u", "t", "s">>)

\* the winners with the latest attempt first
RECURSIVE Winners_reversed(_)
Winners_reversed(outputs) ==
    IF outputs = <<>> THEN <<>>
    ELSE IF Head(outputs).code = 200
         THEN Winners_reversed(Tail(outputs)) \o <<Head(outputs).body>>
         ELSE Winners_reversed(Tail(outputs))

\* [b for (m,c,b) in outputs if c==200]
RECURSIVE Winners(_)
Winners(outputs) ==
    IF outputs = <<>> THEN <<>>
    ELSE IF Head(outputs).code = HTTP_OK
         THEN <<Head(outputs).body>> \o Winners(Tail(outputs))
         ELSE Winners(Tail(outputs))

\* the last of the greatest length
RECURSIVE Longest_last(_, _)
Longest_last(outputs, best) ==
    IF outputs = <<>> THEN best
    ELSE Longest_last(Tail(outputs),
                      IF Len(Head(outputs).body) >= Len(best) THEN Head(outputs).body
                      ELSE best)

\* max(bodies, key=len): the first of the greatest length
RECURSIVE Longest(_, _)
Longest(outputs, best) ==
    IF outputs = <<>> THEN best
    ELSE Longest(Tail(outputs),
                 IF Len(Head(outputs).body) > Len(best) THEN Head(outputs).body ELSE best)

\* the reduction at the end of committee: the pair it returns
committee_reduce(outputs) ==
    IF Winners(outputs) # <<>>
    THEN [code |-> HTTP_OK, body |-> Winners(outputs)[1]]
    ELSE [code |-> HTTP_OK,
          body |-> IF outputs = <<>> THEN NoOutputsBody
                   ELSE Longest(Tail(outputs), Head(outputs).body)]

----------------------------------------------------------------------------
(* The environment: callers and provider back ends *)

\* the values of BRIDGE_MODE exercised; "fast" is none of the modes the handler knows
Modes == {"adaptive", "hybrid", "committee", "fast"}

\* the chat-completion requests exercised: the joined user/system content and task_id
Requests == {
    [prompt |-> <<"H", "i">>,      task_id |-> <<>>],
    [prompt |-> <<"x", "y", "o">>, task_id |-> <<>>],
    [prompt |-> <<"x", "y", "o">>, task_id |-> <<"s">>],
    [prompt |-> <<"d", "e", "f">>, task_id |-> <<>>] }

Fingerprints == {task_fingerprint(r.prompt, classify_task(r.prompt)) : r \in Requests}

\* what urlopen does for one call of record_metrics or broadcast_insight: the
\* notification is delivered, or the call raises (refused, timeout, error status)
ObsOutcomes == {"sent", "failed"}

\* what http_json does for one adapter call: return 200 and a body, return
\* another 2xx status and a body, or raise (HTTPError, URLError, timeout)
Outcomes == {"ok", "status", "raise"}

AdapterReply(provider, o) ==
    IF o = "ok" THEN [code |-> HTTP_OK, body |-> <<provider>>]
    ELSE [code |-> HTTP_ACCEPTED, body |-> <<provider, "?">>]

\* str(e) of the exception an adapter call raises
ErrMsg == <<"t", "i", "m", "e", "d", " ", "o", "u", "t">>

\* json.dumps({"error": msg})
JsonError(msg) == <<"{\"error\": \"">> \o msg \o <<"\"}">>

NoEntry == [present |-> FALSE, body |-> <<>>, ts |-> 0, code |-> 0]

NoStats == [success |-> 0, fail |-> 0, consecutive_fails |-> 0]

ZeroWeights == [p \in ProviderSet |-> 0]

NoReq == [path |-> "", prompt |-> <<>>, task_id |-> <<>>, kind |-> "", fp |-> <<"", <<>>>>,
          hasWeights |-> FALSE, wnames |-> <<>>, weights |-> ZeroWeights, provider |-> "",
          code |-> 0, out |-> <<>>, err |-> <<>>,
          members |-> <<>>, idx |-> 0,
          outputs |-> <<>>,
          \* history of this request, read by the properties only
          calls |-> 0, via |-> "", fresh |-> FALSE, stored |-> <<>>,
          gdwAvail |-> {}, primary |-> "", cooling0 |-> FALSE, pickAvail |-> {},
          pfail0 |-> 0, obsFailed |-> FALSE, fbAvail |-> {}, cmArg |-> <<>>,
          cmAvail |-> {}]

----------------------------------------------------------------------------
(* The request handler, Handler.do_POST *)

NoResult == [done |-> FALSE, code |-> 0, body |-> <<>>]

\* the loop body of get_dynamic_weights not yet run
NoAdjust == [done |-> FALSE, raised |-> FALSE, base |-> R(0, 1), other |-> R(0, 1),
             penalty |-> R(0, 1), dynamic |-> R(0, 1), weight |-> R(0, 1)]

\* the bridge after start-up: no calls recorded, no cooldown, an empty cache
Init ==
    /\ mode \in Modes
    /\ calls0 = 0
    /\ now = 1
    /\ nticks = 0
    /\ lock = 0
    /\ pc = [w \in 1..NumWorkers |-> "idle"]
    /\ req = [w \in 1..NumWorkers |-> NoReq]
    /\ stats = [p \in ProviderSet |-> NoStats]
    /\ cooldown = [p \in ProviderSet |-> 0]
    /\ cache = [f \in Fingerprints |-> NoEntry]
    /\ streak = [p \in ProviderSet |-> 0]
    /\ tripAt = [p \in ProviderSet |-> 0]
    /\ third = [p \in ProviderSet |-> 0]
    /\ ncalls = [p \in ProviderSet |-> 0]
    /\ cm_outputs = <<>>
    /\ cm_result = NoResult
    /\ cl_prompt = <<>>
    /\ cl_result = ""
    /\ lat_window = <<>>
    /\ lat_history = <<>>
    /\ adj = NoAdjust
    /\ fp_in = <<>>
    /\ fp_out = <<>>

RECURSIVE SumCalls(_)
SumCalls(names) ==
    IF names = <<>> THEN 0
    ELSE stats[Head(names)].success + stats[Head(names)].fail + SumCalls(Tail(names))

\* the places where a worker waits: for a request, or for a provider's answer
Waiting == {"idle", "call", "cm_call", "anth_call"}

\* the amounts by which the clock is moved
TickSteps == {COOLDOWN_DURATION, CACHE_TTL}

\* the passage of wall-clock time while the workers wait
Tick(d) ==
    /\ nticks < MaxTicks
    /\ \A w \in Workers : pc[w] \in Waiting
    /\ now' = now + d
    /\ nticks' = nticks + 1
    /\ UNCHANGED <<mode, calls0, lock, pc, req, stats, cooldown, cache, streak, tripAt, third, ncalls>>
    /\ UNCHANGED <<cmVars, clVars, latVars, fpVars>>

\* self._send(code, body): the response leaves, the handler returns
Respond(w, r, code, body, via) ==
    /\ req' = [req EXCEPT ![w] = [r EXCEPT !.code = code, !.out = body, !.via = via]]
    /\ pc' = [pc EXCEPT ![w] = "responded"]

\* [p for p in names if is_provider_available(p)]: each call takes and releases
\* perf_lock
Available(names) ==
    LET IsAvailable(p) == is_provider_available(cooldown, p, now) IN SelectSeq(names, IsAvailable)

\* the number of adapter calls made so far
TotalCalls == SumCalls(Providers)

\* provider_call(name, ...) ending with outcome o: what it records, under
\* perf_lock
ProviderCallRecords(name, o) ==
    /\ TotalCalls - calls0 < MaxCalls
    /\ lock = 0
    /\ LET r == record_provider_result(stats, cooldown, name, o = "ok", now)
           fails == streak[name] + 1
       IN  /\ stats' = r.stats
           /\ cooldown' = r.cooldown
           /\ streak' = [streak EXCEPT ![name] = IF o = "ok" THEN 0 ELSE fails]
           /\ tripAt' = IF o # "ok" /\ fails >= 3 THEN [tripAt EXCEPT ![name] = now]
                        ELSE tripAt
           /\ third' = IF o # "ok" /\ fails = 3 THEN [third EXCEPT ![name] = now]
                       ELSE third
           /\ ncalls' = [ncalls EXCEPT ![name] = @ + 1]

\* do_POST up to the cache check: the request is read and classified
Receive(w, r) ==
    /\ pc[w] = "idle"
    /\ LET kind == classify_task(r.prompt) IN
       req' = [req EXCEPT ![w] = [NoReq EXCEPT !.path = "chat", !.prompt = r.prompt,
                                               !.task_id = r.task_id, !.kind = kind,
                                               !.fp = task_fingerprint(r.prompt, kind),
                                               !.cooling0 = (Available(Providers) = <<>>)]]
    /\ pc' = [pc EXCEPT ![w] = "cache"]
    /\ UNCHANGED <<now, nticks, mode, calls0, lock, stats, cooldown, cache, streak, tripAt, third, ncalls>>
    /\ UNCHANGED <<cmVars, clVars, latVars, fpVars>>

\* do_POST for /v1/anthropic/messages up to the provider call
ReceiveAnthropic(w) ==
    /\ pc[w] = "idle"
    /\ req' = [req EXCEPT ![w] = [NoReq EXCEPT !.path = "anthropic", !.provider = "claude"]]
    /\ pc' = [pc EXCEPT ![w] = "anth_call"]
    /\ UNCHANGED <<now, nticks, mode, calls0, lock, stats, cooldown, cache, streak, tripAt, third, ncalls>>
    /\ UNCHANGED <<cmVars, clVars, latVars, fpVars>>

\* a variant that answers 500 without a call while "claude" is in cooldown
AnthropicCall_gated(w, o) ==
    /\ pc[w] = "anth_call"
    /\ IF is_provider_available(cooldown, "claude", now)
       THEN /\ ProviderCallRecords("claude", o)
            /\ LET r == [req[w] EXCEPT !.calls = @ + 1, !.primary = o] IN
               IF o = "raise"
               THEN Respond(w, r, HTTP_ERROR, JsonError(ErrMsg), "error")
               ELSE Respond(w, r, AdapterReply("claude", o).code,
                            AdapterReply("claude", o).body, "primary")
       ELSE /\ Respond(w, req[w], HTTP_ERROR, JsonError(ErrMsg), "error")
            /\ UNCHANGED <<stats, cooldown, streak, tripAt, third, ncalls>>
    /\ UNCHANGED <<now, nticks, mode, calls0, lock, cache>>
    /\ UNCHANGED <<cmVars, clVars, latVars, fpVars>>

\* provider_call("claude", ...) and the response of /v1/anthropic/messages
AnthropicCall(w, o) ==
    /\ pc[w] = "anth_call"
    /\ ProviderCallRecords("claude", o)
    /\ LET r == [req[w] EXCEPT !.calls = @ + 1, !.primary = o] IN
       IF o = "raise"
       THEN Respond(w, r, HTTP_ERROR, JsonError(ErrMsg), "error")
       ELSE Respond(w, r, AdapterReply("claude", o).code, AdapterReply("claude", o).body,
                    "primary")
    /\ UNCHANGED <<now, nticks, mode, calls0, lock, cache>>
    /\ UNCHANGED <<cmVars, clVars, latVars, fpVars>>

\* the cache check under perf_lock; on a hit the lock stays held for the send
CacheCheck(w) ==
    /\ pc[w] = "cache"
    /\ lock = 0
    /\ LET entry == cache[req[w].fp]
           r == [req[w] EXCEPT !.fresh = entry.present /\ now - entry.ts < 3600,
                               !.stored = entry.body]
       IN  IF CacheHit(entry, now)
           THEN /\ lock' = w
                /\ req' = [req EXCEPT ![w] = [r EXCEPT !.code = HTTP_OK, !.out = entry.body]]
                /\ pc' = [pc EXCEPT ![w] = "cache_send"]
           ELSE /\ lock' = lock
                /\ req' = [req EXCEPT ![w] = r]
                /\ pc' = [pc EXCEPT ![w] = "route"]
    /\ UNCHANGED <<now, nticks, mode, calls0, stats, cooldown, cache, streak, tripAt, third, ncalls>>
    /\ UNCHANGED <<cmVars, clVars, latVars, fpVars>>

\* return self._send(200, cached[0]) inside the with block
SendCached(w) ==
    /\ pc[w] = "cache_send"
    /\ lock = w
    /\ lock' = 0
    /\ Respond(w, req[w], HTTP_OK, req[w].out, "cache")
    /\ UNCHANGED <<now, nticks, mode, calls0, stats, cooldown, cache, streak, tripAt, third, ncalls>>
    /\ UNCHANGED <<cmVars, clVars, latVars, fpVars>>

\* the branch on mode with every unknown mode handled as committee mode
Route_lenient(w) ==
    /\ pc[w] = "route"
    /\ IF mode \in {"hybrid", "adaptive"}
       THEN /\ pc' = [pc EXCEPT ![w] = "gdw"]
            /\ req' = req
       ELSE /\ pc' = [pc EXCEPT ![w] = "committee"]
            /\ req' = [req EXCEPT ![w].members = Providers]
    /\ UNCHANGED <<now, nticks, mode, calls0, lock, stats, cooldown, cache, streak, tripAt, third, ncalls>>
    /\ UNCHANGED <<cmVars, clVars, latVars, fpVars>>

\* the branch on mode with committee mode run over the available providers
Route_available(w) ==
    /\ pc[w] = "route"
    /\ IF mode \in {"hybrid", "adaptive"}
       THEN /\ pc' = [pc EXCEPT ![w] = "gdw"]
            /\ req' = req
       ELSE IF mode = "committee"
       THEN /\ pc' = [pc EXCEPT ![w] = "committee"]
            /\ req' = [req EXCEPT ![w].members = Available(Providers)]
       ELSE Respond(w, req[w], HTTP_BAD_REQUEST, JsonError(<<"invalid mode">>), "error")
    /\ UNCHANGED <<now, nticks, mode, calls0, lock, stats, cooldown, cache, streak, tripAt, third, ncalls>>
    /\ UNCHANGED <<cmVars, clVars, latVars, fpVars>>

\* the branch on mode
Route(w) ==
    /\ pc[w] = "route"
    /\ IF mode \in {"hybrid", "adaptive"}
       THEN /\ pc' = [pc EXCEPT ![w] = "gdw"]
            /\ req' = req
       ELSE IF mode = "committee"
       THEN /\ pc' = [pc EXCEPT ![w] = "committee"]
            /\ req' = [req EXCEPT ![w].members = Providers]
       ELSE Respond(w, req[w], HTTP_BAD_REQUEST, JsonError(<<"invalid mode">>), "error")
    /\ UNCHANGED <<now, nticks, mode, calls0, lock, stats, cooldown, cache, streak, tripAt, third, ncalls>>
    /\ UNCHANGED <<cmVars, clVars, latVars, fpVars>>

\* the keys of the default weights, in the order the dict literal gives them
DefaultNames == <<"llama", "mistral", "openai", "claude">>

RECURSIVE SumWeights(_, _)
SumWeights(weights, names) ==
    IF names = <<>> THEN 0 ELSE weights[Head(names)] + SumWeights(weights, Tail(names))

\* pick_provider calls get_dynamic_weights.  Without declared weights for the
\* category the default weights are returned at once.  With declared weights
\* the loop calls is_provider_available for the first provider while perf_lock
\* is still held by this worker: the worker waits at "gdw_loop" for a lock
\* that only it could release, and no step of it is enabled there.
GetDynamicWeights(w) ==
    /\ pc[w] = "gdw"
    /\ lock = 0
    /\ IF req[w].kind \notin WeightsDeclared
       THEN /\ lock' = lock
            /\ req' = [req EXCEPT ![w] =
                         [@ EXCEPT !.hasWeights = TRUE,
                                   !.wnames = DefaultNames,
                                   !.weights = DefaultWeights,
                                   !.gdwAvail = {p \in ProviderSet :
                                                   is_provider_available(cooldown, p, now)}]]
            /\ pc' = [pc EXCEPT ![w] = "pick"]
       ELSE /\ lock' = w
            /\ req' = req
            /\ pc' = [pc EXCEPT ![w] = "gdw_loop"]
    /\ UNCHANGED <<now, nticks, mode, calls0, stats, cooldown, cache, streak, tripAt, third, ncalls>>
    /\ UNCHANGED <<cmVars, clVars, latVars, fpVars>>

\* the choice of pick_provider from the weights and the available providers
Pick(weights, names, availableAll, availableWeighted) ==
    IF SumWeights(weights, names) = 0
    THEN IF availableAll = <<>> THEN "openai" ELSE availableAll[1]
    ELSE IF availableWeighted = <<>> THEN "openai"
         ELSE MaxWeight(weights, Tail(availableWeighted), Head(availableWeighted))

\* pick_provider returning with perf_lock still held
PickProvider_locked(w) ==
    /\ pc[w] = "pick"
    /\ lock = 0
    /\ lock' = w
    /\ req' = [req EXCEPT ![w] =
                 [@ EXCEPT !.provider = Pick(req[w].weights, req[w].wnames,
                                             Available(Providers), Available(req[w].wnames)),
                           !.pickAvail = {p \in ProviderSet :
                                            is_provider_available(cooldown, p, now)}]]
    /\ pc' = [pc EXCEPT ![w] = "call"]
    /\ UNCHANGED <<now, nticks, mode, calls0, stats, cooldown, cache, streak, tripAt, third, ncalls>>
    /\ UNCHANGED <<cmVars, clVars, latVars, fpVars>>

\* the rest of pick_provider: the first available provider or "openai" when the
\* weights are empty or zero, else the available provider of greatest weight
PickProvider(w) ==
    /\ pc[w] = "pick"
    /\ lock = 0
    /\ req' = [req EXCEPT ![w] =
                 [@ EXCEPT !.provider = Pick(req[w].weights, req[w].wnames,
                                             Available(Providers), Available(req[w].wnames)),
                           !.pickAvail = {p \in ProviderSet :
                                            is_provider_available(cooldown, p, now)}]]
    /\ pc' = [pc EXCEPT ![w] = "call"]
    /\ UNCHANGED <<now, nticks, mode, calls0, lock, stats, cooldown, cache, streak, tripAt, third, ncalls>>
    /\ UNCHANGED <<cmVars, clVars, latVars, fpVars>>

\* provider_call(provider, ...) of the adaptive path, and what follows it up to
\* the next use of perf_lock
PrimaryCall(w, o) ==
    /\ pc[w] = "call"
    /\ ProviderCallRecords(req[w].provider, o)
    /\ LET r == [req[w] EXCEPT !.calls = @ + 1, !.primary = o,
                               !.pfail0 = stats[req[w].provider].fail] IN
       IF o = "raise"
       THEN /\ req' = [req EXCEPT ![w] = [r EXCEPT !.err = ErrMsg]]
            /\ pc' = [pc EXCEPT ![w] = "except"]
       ELSE /\ req' = [req EXCEPT ![w] =
                         [r EXCEPT !.code = AdapterReply(r.provider, o).code,
                                   !.out = AdapterReply(r.provider, o).body]]
            /\ pc' = [pc EXCEPT ![w] = "store"]
    /\ UNCHANGED <<now, nticks, mode, calls0, lock, cache>>
    /\ UNCHANGED <<cmVars, clVars, latVars, fpVars>>

\* the cache entry stored for the request
StoredEntry(code, out, t) == [present |-> TRUE, body |-> out, ts |-> t, code |-> code]

\* escalation on the status alone
Escalates_status(code, task_id, prompt) == code # HTTP_OK

\* code != 200 or sensitive
Escalates(code, task_id, prompt) == code # HTTP_OK \/ IsSensitive(task_id, prompt)

\* a failed notification handled like an exception of the primary call
CacheStore_obs(w, obs) ==
    /\ pc[w] = "store"
    /\ lock = 0
    /\ LET r == [req[w] EXCEPT !.obsFailed = (obs = "failed")] IN
       IF obs = "failed"
       THEN /\ cache' = cache
            /\ req' = [req EXCEPT ![w] = r]
            /\ pc' = [pc EXCEPT ![w] = "except"]
       ELSE /\ cache' = [cache EXCEPT ![r.fp] = StoredEntry(r.code, r.out, now)]
            /\ IF Escalates(r.code, r.task_id, r.prompt)
               THEN /\ pc' = [pc EXCEPT ![w] = "escalate"]
                    /\ req' = [req EXCEPT ![w] = r]
               ELSE Respond(w, r, r.code, r.out, "primary")
    /\ UNCHANGED <<now, nticks, mode, calls0, lock, stats, cooldown, streak, tripAt, third, ncalls>>
    /\ UNCHANGED <<cmVars, clVars, latVars, fpVars>>

\* record_metrics and broadcast_insight end with obs; the result is cached
\* under perf_lock; then the request escalates to the committee or the primary
\* response is sent
CacheStore(w, obs) ==
    /\ pc[w] = "store"
    /\ lock = 0
    /\ LET r == [req[w] EXCEPT !.obsFailed = (obs = "failed")] IN
       /\ cache' = [cache EXCEPT ![r.fp] = StoredEntry(r.code, r.out, now)]
       /\ IF Escalates(r.code, r.task_id, r.prompt)
          THEN /\ pc' = [pc EXCEPT ![w] = "escalate"]
               /\ req' = [req EXCEPT ![w] = r]
          ELSE Respond(w, r, r.code, r.out, "primary")
    /\ UNCHANGED <<now, nticks, mode, calls0, lock, stats, cooldown, streak, tripAt, third, ncalls>>
    /\ UNCHANGED <<cmVars, clVars, latVars, fpVars>>

\* the escalation without the provider of the primary call
Escalate_others(w) ==
    /\ pc[w] = "escalate"
    /\ lock = 0
    /\ LET NotPrimary(p) == p # req[w].provider
           others == SelectSeq(Available(Providers), NotPrimary)
       IN  req' = [req EXCEPT ![w].members = IF others = <<>> THEN Providers ELSE others]
    /\ pc' = [pc EXCEPT ![w] = "committee"]
    /\ UNCHANGED <<now, nticks, mode, calls0, lock, stats, cooldown, cache, streak, tripAt, third, ncalls>>
    /\ UNCHANGED <<cmVars, clVars, latVars, fpVars>>

\* the members of the escalation: the available providers, or all of them
Escalate(w) ==
    /\ pc[w] = "escalate"
    /\ lock = 0
    /\ req' = [req EXCEPT ![w].members =
                 IF Available(Providers) = <<>> THEN Providers ELSE Available(Providers)]
    /\ pc' = [pc EXCEPT ![w] = "committee"]
    /\ UNCHANGED <<now, nticks, mode, calls0, lock, stats, cooldown, cache, streak, tripAt, third, ncalls>>
    /\ UNCHANGED <<cmVars, clVars, latVars, fpVars>>

\* the fallback over every available provider, the one that raised included
Fallback_all(w, obs) ==
    /\ pc[w] = "except"
    /\ lock = 0
    /\ LET r == [req[w] EXCEPT !.obsFailed = (obs = "failed"),
                               !.fbAvail = {p \in ProviderSet :
                                              is_provider_available(cooldown, p, now)}]
           members == Available(Providers)
       IN  IF members # <<>>
           THEN /\ req' = [req EXCEPT ![w] = [r EXCEPT !.members = members]]
                /\ pc' = [pc EXCEPT ![w] = "committee"]
           ELSE Respond(w, r, HTTP_ERROR, JsonError(r.err), "error")
    /\ UNCHANGED <<now, nticks, mode, calls0, lock, stats, cooldown, cache, streak, tripAt, third, ncalls>>
    /\ UNCHANGED <<cmVars, clVars, latVars, fpVars>>

\* after an exception of the primary call: record_metrics ends with obs; the
\* members are the available providers other than the one that raised;
\* without any, the error is sent
Fallback(w, obs) ==
    /\ pc[w] = "except"
    /\ lock = 0
    /\ LET r == [req[w] EXCEPT !.obsFailed = (obs = "failed"),
                               !.fbAvail = {p \in ProviderSet :
                                              is_provider_available(cooldown, p, now)}]
           NotFailed(p) == p # r.provider
           members == SelectSeq(Available(Providers), NotFailed)
       IN  IF members # <<>>
           THEN /\ req' = [req EXCEPT ![w] = [r EXCEPT !.members = members]]
                /\ pc' = [pc EXCEPT ![w] = "committee"]
           ELSE Respond(w, r, HTTP_ERROR, JsonError(r.err), "error")
    /\ UNCHANGED <<now, nticks, mode, calls0, lock, stats, cooldown, cache, streak, tripAt, third, ncalls>>
    /\ UNCHANGED <<cmVars, clVars, latVars, fpVars>>

\* committee: the members that are available, or all members when none is
CommitteeMembers(w) ==
    /\ pc[w] = "committee"
    /\ lock = 0
    /\ LET r == req[w] IN
       req' = [req EXCEPT ![w] =
                 [r EXCEPT !.members = IF Available(r.members) = <<>> THEN r.members
                                       ELSE Available(r.members),
                           !.outputs = <<>>, !.idx = 1,
                           !.cmArg = r.members,
                           !.cmAvail = {p \in ProviderSet :
                                          is_provider_available(cooldown, p, now)}]]
    /\ pc' = [pc EXCEPT ![w] = "cm_call"]
    /\ UNCHANGED <<now, nticks, mode, calls0, lock, stats, cooldown, cache, streak, tripAt, third, ncalls>>
    /\ UNCHANGED <<cmVars, clVars, latVars, fpVars>>

\* a committee run that an exception of a member's call ends with a 500
CommitteeCall_abort(w, o) ==
    /\ pc[w] = "cm_call"
    /\ LET r == req[w]
           m == r.members[r.idx]
           attempt == [member |-> m, code |-> AdapterReply(m, o).code,
                       body |-> AdapterReply(m, o).body]
       IN  /\ ProviderCallRecords(m, o)
           /\ IF o = "raise"
              THEN Respond(w, [r EXCEPT !.calls = @ + 1], HTTP_ERROR, JsonError(ErrMsg), "error")
              ELSE /\ req' = [req EXCEPT ![w] =
                                [r EXCEPT !.outputs = Append(r.outputs, attempt),
                                          !.idx = r.idx + 1, !.calls = @ + 1]]
                   /\ pc' = [pc EXCEPT ![w] = IF r.idx = Len(r.members) THEN "cm_done"
                                              ELSE "cm_call"]
    /\ UNCHANGED <<now, nticks, mode, calls0, lock, cache>>
    /\ UNCHANGED <<cmVars, clVars, latVars, fpVars>>

\* committee: provider_call of the next member, its attempt appended to outputs
CommitteeCall(w, o) ==
    /\ pc[w] = "cm_call"
    /\ LET r == req[w]
           m == r.members[r.idx]
           attempt == IF o = "raise"
                      THEN [member |-> m, code |-> 0, body |-> ErrorBody(ErrMsg)]
                      ELSE [member |-> m, code |-> AdapterReply(m, o).code,
                            body |-> AdapterReply(m, o).body]
       IN  /\ ProviderCallRecords(m, o)
           /\ req' = [req EXCEPT ![w] =
                        [r EXCEPT !.outputs = Append(r.outputs, attempt),
                                  !.idx = r.idx + 1, !.calls = @ + 1]]
           /\ pc' = [pc EXCEPT ![w] = IF r.idx = Len(r.members) THEN "cm_done" ELSE "cm_call"]
    /\ UNCHANGED <<now, nticks, mode, calls0, lock, cache>>
    /\ UNCHANGED <<cmVars, clVars, latVars, fpVars>>

\* committee returns its reduction and the handler sends it; on the escalation
\* path and in committee mode record_metrics and broadcast_insight come
\* first and end with obs
CommitteeReturn(w, obs) ==
    /\ pc[w] = "cm_done"
    /\ LET res == committee_reduce(req[w].outputs)
           r == [req[w] EXCEPT !.obsFailed = @ \/ (obs = "failed" /\ req[w].primary # "raise")]
       IN  Respond(w, r, res.code, res.body, "committee")
    /\ UNCHANGED <<now, nticks, mode, calls0, lock, stats, cooldown, cache, streak, tripAt, third, ncalls>>
    /\ UNCHANGED <<cmVars, clVars, latVars, fpVars>>

\* do_GET for /health up to the with block
ReceiveHealth(w) ==
    /\ pc[w] = "idle"
    /\ req' = [req EXCEPT ![w] = [NoReq EXCEPT !.path = "health"]]
    /\ pc' = [pc EXCEPT ![w] = "health"]
    /\ UNCHANGED <<now, nticks, mode, calls0, lock, stats, cooldown, cache, streak, tripAt, third, ncalls>>
    /\ UNCHANGED <<cmVars, clVars, latVars, fpVars>>

\* /health takes perf_lock and, for the first provider, calls
\* is_provider_available, which takes perf_lock again: the worker waits at
\* "health_loop" for the lock it holds, and no step of it is enabled there
Health(w) ==
    /\ pc[w] = "health"
    /\ lock = 0
    /\ lock' = w
    /\ pc' = [pc EXCEPT ![w] = "health_loop"]
    /\ UNCHANGED <<now, nticks, mode, calls0, req, stats, cooldown, cache, streak, tripAt, third, ncalls>>
    /\ UNCHANGED <<cmVars, clVars, latVars, fpVars>>

\* the handler has returned; the worker waits for the next request
Close(w) ==
    /\ pc[w] = "responded"
    /\ pc' = [pc EXCEPT ![w] = "idle"]
    /\ req' = [req EXCEPT ![w] = NoReq]
    /\ UNCHANGED <<now, nticks, mode, calls0, lock, stats, cooldown, cache, streak, tripAt, third, ncalls>>
    /\ UNCHANGED <<cmVars, clVars, latVars, fpVars>>

Next ==
    \/ \E d \in TickSteps : Tick(d)
    \/ \E w \in Workers : \E r \in Requests : Receive(w, r)
    \/ \E w \in Workers : ReceiveAnthropic(w)
    \/ \E w \in Workers : \E o \in Outcomes : AnthropicCall(w, o)
    \/ \E w \in Workers : CacheCheck(w)
    \/ \E w \in Workers : SendCached(w)
    \/ \E w \in Workers : Route(w)
    \/ \E w \in Workers : GetDynamicWeights(w)
    \/ \E w \in Workers : PickProvider(w)
    \/ \E w \in Workers : \E o \in Outcomes : PrimaryCall(w, o)
    \/ \E w \in Workers : \E obs \in ObsOutcomes : CacheStore(w, obs)
    \/ \E w \in Workers : Escalate(w)
    \/ \E w \in Workers : \E obs \in ObsOutcomes : Fallback(w, obs)
    \/ \E w \in Workers : CommitteeMembers(w)
    \/ \E w \in Workers : \E o \in Outcomes : CommitteeCall(w, o)
    \/ \E w \in Workers : \E obs \in ObsOutcomes : CommitteeReturn(w, obs)
    \/ \E w \in Workers : ReceiveHealth(w)
    \/ \E w \in Workers : Health(w)
    \/ \E w \in Workers : Close(w)

Spec == Init /\ [][Next]_vars

----------------------------------------------------------------------------
(* The reduction of committee on its own, over any sequence of attempts *)

\* the bodies of the attempts exercised
AttemptBodies == {<<>>, <<"x">>, <<"y", "y">>, <<"z", "z">>}

\* the status of an attempt: 200, another status, or 0 for a call that raised
AttemptCodes == {HTTP_OK, HTTP_ACCEPTED, 0}

\* outputs.append((m, code, body))
Attempt(code, body) ==
    /\ Len(cm_outputs) < MaxAttempts
    /\ cm_outputs' = Append(cm_outputs,
                            [member |-> Providers[Len(cm_outputs) + 1], code |-> code,
                             body |-> body])
    /\ cm_result' = NoResult
    /\ UNCHANGED <<reqVars, clVars, latVars, fpVars>>

\* the lines of committee after its loop
Reduce ==
    /\ ~cm_result.done
    /\ cm_result' = [done |-> TRUE, code |-> committee_reduce(cm_outputs).code,
                     body |-> committee_reduce(cm_outputs).body]
    /\ UNCHANGED <<cm_outputs, reqVars, clVars, latVars, fpVars>>

NextCommittee ==
    \/ \E code \in AttemptCodes : \E body \in AttemptBodies : Attempt(code, body)
    \/ Reduce

InitCommittee ==
    /\ mode = "committee"
    /\ calls0 = 0
    /\ now = 1
    /\ nticks = 0
    /\ lock = 0
    /\ pc = [w \in 1..NumWorkers |-> "idle"]
    /\ req = [w \in 1..NumWorkers |-> NoReq]
    /\ stats = [p \in ProviderSet |-> NoStats]
    /\ cooldown = [p \in ProviderSet |-> 0]
    /\ cache = [f \in Fingerprints |-> NoEntry]
    /\ streak = [p \in ProviderSet |-> 0]
    /\ tripAt = [p \in ProviderSet |-> 0]
    /\ third = [p \in ProviderSet |-> 0]
    /\ ncalls = [p \in ProviderSet |-> 0]
    /\ cm_outputs = <<>>
    /\ cm_result = NoResult
    /\ cl_prompt = <<>>
    /\ cl_result = ""
    /\ lat_window = <<>>
    /\ lat_history = <<>>
    /\ adj = NoAdjust
    /\ fp_in = <<>>
    /\ fp_out = <<>>

SpecCommittee == InitCommittee /\ [][NextCommittee]_vars

----------------------------------------------------------------------------
(* classify_task on its own, over any prompt *)

\* the characters of the prompts exercised
Alphabet == {"p", "y", "o", "h", "i", "P", "I", "z"}

TypeChar(c) ==
    /\ Len(cl_prompt) < MaxPromptLen
    /\ cl_prompt' = Append(cl_prompt, c)
    /\ cl_result' = ""
    /\ UNCHANGED <<reqVars, cmVars, latVars, fpVars>>

Classify ==
    /\ cl_result = ""
    /\ cl_result' = classify_task(cl_prompt)
    /\ UNCHANGED <<cl_prompt, reqVars, cmVars, latVars, fpVars>>

NextClassify ==
    \/ \E c \in Alphabet : TypeChar(c)
    \/ Classify

InitClassify ==
    /\ mode = "adaptive"
    /\ calls0 = 0
    /\ now = 1
    /\ nticks = 0
    /\ lock = 0
    /\ pc = [w \in 1..NumWorkers |-> "idle"]
    /\ req = [w \in 1..NumWorkers |-> NoReq]
    /\ stats = [p \in ProviderSet |-> NoStats]
    /\ cooldown = [p \in ProviderSet |-> 0]
    /\ cache = [f \in Fingerprints |-> NoEntry]
    /\ streak = [p \in ProviderSet |-> 0]
    /\ tripAt = [p \in ProviderSet |-> 0]
    /\ third = [p \in ProviderSet |-> 0]
    /\ ncalls = [p \in ProviderSet |-> 0]
    /\ cm_outputs = <<>>
    /\ cm_result = NoResult
    /\ cl_prompt = <<>>
    /\ cl_result = ""
    /\ lat_window = <<>>
    /\ lat_history = <<>>
    /\ adj = NoAdjust
    /\ fp_in = <<>>
    /\ fp_out = <<>>

SpecClassify == InitClassify /\ [][NextClassify]_vars

----------------------------------------------------------------------------
(* get_dynamic_weights on its own, over the cooldown tables that failures leave *)

\* the table after the providers of tripped have each failed three times in a
\* row at time 1
TrippedStats(tripped) ==
    [p \in ProviderSet |-> IF p \in tripped
                           THEN [success |-> 0, fail |-> FAIL_THRESHOLD,
                                 consecutive_fails |-> FAIL_THRESHOLD]
                           ELSE NoStats]

InitWeights ==
    /\ mode = "adaptive"
    /\ \E tripped \in SUBSET ProviderSet :
          /\ stats = TrippedStats(tripped)
          /\ cooldown = [p \in ProviderSet |->
                           IF p \in tripped THEN 1 + COOLDOWN_DURATION ELSE 0]
          /\ streak = [p \in ProviderSet |-> IF p \in tripped THEN FAIL_THRESHOLD ELSE 0]
          /\ tripAt = [p \in ProviderSet |-> IF p \in tripped THEN 1 ELSE 0]
          /\ third = [p \in ProviderSet |-> IF p \in tripped THEN 1 ELSE 0]
          /\ ncalls = [p \in ProviderSet |-> IF p \in tripped THEN FAIL_THRESHOLD ELSE 0]
    /\ calls0 = SumCalls(Providers)
    /\ now \in {1, 1 + COOLDOWN_DURATION, 1 + COOLDOWN_DURATION + COOLDOWN_DURATION}
    /\ nticks = 0
    /\ lock = 0
    /\ \E r \in Requests :
          LET kind == classify_task(r.prompt) IN
          req = [w \in 1..NumWorkers |->
                   [NoReq EXCEPT !.path = "chat", !.prompt = r.prompt, !.task_id = r.task_id,
                                 !.kind = kind, !.fp = task_fingerprint(r.prompt, kind)]]
    /\ pc = [w \in 1..NumWorkers |-> "gdw"]
    /\ cache = [f \in Fingerprints |-> NoEntry]
    /\ cm_outputs = <<>>
    /\ cm_result = NoResult
    /\ cl_prompt = <<>>
    /\ cl_result = ""
    /\ lat_window = <<>>
    /\ lat_history = <<>>
    /\ adj = NoAdjust
    /\ fp_in = <<>>
    /\ fp_out = <<>>

NextWeights == \E w \in Workers : GetDynamicWeights(w)

SpecWeights == InitWeights /\ [][NextWeights]_vars

----------------------------------------------------------------------------
(* The handler when every provider is in cooldown *)

\* every provider has failed three times in a row at time 1: three requests whose
\* primary call raised and whose committee members all failed leave this
\* state, with an empty cache
InitCooling ==
    /\ mode = "adaptive"
    /\ stats = TrippedStats(ProviderSet)
    /\ calls0 = SumCalls(Providers)
    /\ cooldown = [p \in ProviderSet |-> 1 + COOLDOWN_DURATION]
    /\ streak = [p \in ProviderSet |-> FAIL_THRESHOLD]
    /\ tripAt = [p \in ProviderSet |-> 1]
    /\ third = [p \in ProviderSet |-> 1]
    /\ ncalls = [p \in ProviderSet |-> FAIL_THRESHOLD]
    /\ now = 1
    /\ nticks = 0
    /\ lock = 0
    /\ pc = [w \in 1..NumWorkers |-> "idle"]
    /\ req = [w \in 1..NumWorkers |-> NoReq]
    /\ cache = [f \in Fingerprints |-> NoEntry]
    /\ cm_outputs = <<>>
    /\ cm_result = NoResult
    /\ cl_prompt = <<>>
    /\ cl_result = ""
    /\ lat_window = <<>>
    /\ lat_history = <<>>
    /\ adj = NoAdjust
    /\ fp_in = <<>>
    /\ fp_out = <<>>

SpecCooling == InitCooling /\ [][Next]_vars

----------------------------------------------------------------------------
(* pick_provider on its own, over weight vectors and cooldown tables *)

\* the weight vectors exercised: none, all zero, the default weights
WeightVectors == {
    [names |-> <<>>, weights |-> ZeroWeights],
    [names |-> DefaultNames, weights |-> ZeroWeights],
    [names |-> DefaultNames, weights |-> DefaultWeights] }

InitPick ==
    /\ mode = "hybrid"
    /\ \E tripped \in SUBSET ProviderSet :
          /\ stats = TrippedStats(tripped)
          /\ cooldown = [p \in ProviderSet |->
                           IF p \in tripped THEN 1 + COOLDOWN_DURATION ELSE 0]
          /\ streak = [p \in ProviderSet |-> IF p \in tripped THEN FAIL_THRESHOLD ELSE 0]
          /\ tripAt = [p \in ProviderSet |-> IF p \in tripped THEN 1 ELSE 0]
          /\ third = [p \in ProviderSet |-> IF p \in tripped THEN 1 ELSE 0]
          /\ ncalls = [p \in ProviderSet |-> IF p \in tripped THEN FAIL_THRESHOLD ELSE 0]
    /\ calls0 = SumCalls(Providers)
    /\ now \in {1, 1 + COOLDOWN_DURATION, 1 + COOLDOWN_DURATION + COOLDOWN_DURATION}
    /\ nticks = 0
    /\ lock = 0
    /\ \E v \in WeightVectors :
          req = [w \in 1..NumWorkers |->
                   [NoReq EXCEPT !.path = "chat", !.hasWeights = TRUE,
                                 !.wnames = v.names, !.weights = v.weights]]
    /\ pc = [w \in 1..NumWorkers |-> "pick"]
    /\ cache = [f \in Fingerprints |-> NoEntry]
    /\ cm_outputs = <<>>
    /\ cm_result = NoResult
    /\ cl_prompt = <<>>
    /\ cl_result = ""
    /\ lat_window = <<>>
    /\ lat_history = <<>>
    /\ adj = NoAdjust
    /\ fp_in = <<>>
    /\ fp_out = <<>>

NextPick == \E w \in Workers : PickProvider(w)

SpecPick == InitPick /\ [][NextPick]_vars

----------------------------------------------------------------------------
(* The latency window of one provider and the weight computed from it *)

\* the latencies exercised, in seconds
Latencies == {0, 1, 6}

\* the base weights a category may declare for the provider
BaseWeights == {R(0, 1), R(1, 2), R(1, 1)}

\* what the other providers of the category contribute to total_weight: nothing
\* when all are in cooldown, else at least the minimum 0.01 each
OtherWeights == {R(0, 1), R(1, 100), R(1, 1)}

\* record_provider_result(provider, success, latency), as far as the window goes
RecordLatency(success, latency) ==
    /\ Len(lat_history) < MaxRecords
    /\ lat_window' = append_latency(lat_window, success, latency)
    /\ lat_history' = Append(lat_history, [ok |-> success, latency |-> latency])
    /\ adj' = NoAdjust
    /\ UNCHANGED <<reqVars, cmVars, clVars, fpVars>>

\* the calls in the history that had the given outcome
Count(history, ok) == Cardinality({i \in 1..Len(history) : history[i].ok = ok})

\* the body of the loop of get_dynamic_weights for the provider, which is
\* available, and the normalisation of its weight
Adjust(base_weight, other) ==
    /\ ~adj.done
    /\ LET rate == success_rate(Count(lat_history, TRUE), Count(lat_history, FALSE))
           avg == avg_latency(lat_window)
       IN  IF DivisionRaises(avg)
           THEN adj' = [NoAdjust EXCEPT !.done = TRUE, !.raised = TRUE,
                                        !.base = base_weight, !.other = other]
           ELSE LET penalty == latency_penalty(avg)
                    dyn == dynamic_weight(base_weight, rate, penalty)
                IN  adj' = [done |-> TRUE, raised |-> FALSE, base |-> base_weight,
                            other |-> other, penalty |-> penalty, dynamic |-> dyn,
                            weight |-> normalise(dyn, RAdd(dyn, other))]
    /\ UNCHANGED <<lat_window, lat_history, reqVars, cmVars, clVars, fpVars>>

NextLatency ==
    \/ \E success \in BOOLEAN : \E latency \in Latencies : RecordLatency(success, latency)
    \/ \E base_weight \in BaseWeights : \E other \in OtherWeights : Adjust(base_weight, other)

\* no call of the provider recorded yet
InitLatency ==
    /\ mode = "adaptive"
    /\ calls0 = 0
    /\ now = 1
    /\ nticks = 0
    /\ lock = 0
    /\ pc = [w \in 1..NumWorkers |-> "idle"]
    /\ req = [w \in 1..NumWorkers |-> NoReq]
    /\ stats = [p \in ProviderSet |-> NoStats]
    /\ cooldown = [p \in ProviderSet |-> 0]
    /\ cache = [f \in Fingerprints |-> NoEntry]
    /\ streak = [p \in ProviderSet |-> 0]
    /\ tripAt = [p \in ProviderSet |-> 0]
    /\ third = [p \in ProviderSet |-> 0]
    /\ ncalls = [p \in ProviderSet |-> 0]
    /\ cm_outputs = <<>>
    /\ cm_result = NoResult
    /\ cl_prompt = <<>>
    /\ cl_result = ""
    /\ lat_window = <<>>
    /\ lat_history = <<>>
    /\ adj = NoAdjust
    /\ fp_in = <<>>
    /\ fp_out = <<>>

SpecLatency == InitLatency /\ [][NextLatency]_vars

----------------------------------------------------------------------------
(* classify_task and task_fingerprint on their own, over two chat requests *)

\* n characters that belong to no keyword
Pad(n) == [i \in 1..n |-> "a"]

\* the texts that follow the padding: up to MaxSuffix characters of "h" and "i"
RECURSIVE Suffixes(_)
Suffixes(n) ==
    IF n = 0 THEN {<<>>}
    ELSE Suffixes(n - 1) \cup {Append(t, c) : t \in Suffixes(n - 1), c \in {"h", "i"}}

\* prompts that end before, at and after character 500
FpPrompts ==
    {Pad(n) \o t : n \in {0, FINGERPRINT_CHARS - 1, FINGERPRINT_CHARS}, t \in Suffixes(MaxSuffix)}

\* chat requests: the joined content, the task_id and max_tokens of the body
FpRequests ==
    {[prompt |-> q, task_id |-> t, max_tokens |-> m] :
        q \in FpPrompts, t \in {<<>>, <<"s">>}, m \in {256, 1024}}

\* do_POST up to the cache check, for both requests
Fingerprint ==
    /\ fp_out = <<>>
    /\ fp_out' = [i \in 1..2 |->
                    LET kind == classify_task(fp_in[i].prompt) IN
                    [kind |-> kind, fp |-> task_fingerprint(fp_in[i].prompt, kind)]]
    /\ UNCHANGED <<fp_in, reqVars, cmVars, clVars, latVars>>

NextFingerprint == Fingerprint

\* any two chat requests, the first with the default task_id and max_tokens
InitFingerprint ==
    /\ mode = "adaptive"
    /\ calls0 = 0
    /\ now = 1
    /\ nticks = 0
    /\ lock = 0
    /\ pc = [w \in 1..NumWorkers |-> "idle"]
    /\ req = [w \in 1..NumWorkers |-> NoReq]
    /\ stats = [p \in ProviderSet |-> NoStats]
    /\ cooldown = [p \in ProviderSet |-> 0]
    /\ cache = [f \in Fingerprints |-> NoEntry]
    /\ streak = [p \in ProviderSet |-> 0]
    /\ tripAt = [p \in ProviderSet |-> 0]
    /\ third = [p \in ProviderSet |-> 0]
    /\ ncalls = [p \in ProviderSet |-> 0]
    /\ cm_outputs = <<>>
    /\ cm_result = NoResult
    /\ cl_prompt = <<>>
    /\ cl_result = ""
    /\ lat_window = <<>>
    /\ lat_history = <<>>
    /\ adj = NoAdjust
    /\ \E a \in {r \in FpRequests : r.task_id = <<>> /\ r.max_tokens = 1024} :
       \E b \in FpRequests : fp_in = <<a, b>>
    /\ fp_out = <<>>

SpecFingerprint == InitFingerprint /\ [][NextFingerprint]_vars

----------------------------------------------------------------------------
(* The chat handler up to its cache store, run by several threads *)

\* the handler is written for threads: every access to perf_data is under
\* perf_lock.  Two threads serve chat requests in adaptive mode.
InitThreads ==
    /\ mode = "adaptive"
    /\ calls0 = 0
    /\ now = 1
    /\ nticks = 0
    /\ lock = 0
    /\ pc = [w \in 1..NumThreads |-> "idle"]
    /\ req = [w \in 1..NumThreads |-> NoReq]
    /\ stats = [p \in ProviderSet |-> NoStats]
    /\ cooldown = [p \in ProviderSet |-> 0]
    /\ cache = [f \in Fingerprints |-> NoEntry]
    /\ streak = [p \in ProviderSet |-> 0]
    /\ tripAt = [p \in ProviderSet |-> 0]
    /\ third = [p \in ProviderSet |-> 0]
    /\ ncalls = [p \in ProviderSet |-> 0]
    /\ cm_outputs = <<>>
    /\ cm_result = NoResult
    /\ cl_prompt = <<>>
    /\ cl_result = ""
    /\ lat_window = <<>>
    /\ lat_history = <<>>
    /\ adj = NoAdjust
    /\ fp_in = <<>>
    /\ fp_out = <<>>

NextThreads ==
    \/ \E w \in Workers : \E r \in Requests : Receive(w, r)
    \/ \E w \in Workers : CacheCheck(w)
    \/ \E w \in Workers : SendCached(w)
    \/ \E w \in Workers : Route(w)
    \/ \E w \in Workers : GetDynamicWeights(w)
    \/ \E w \in Workers : PickProvider(w)
    \/ \E w \in Workers : \E o \in Outcomes : PrimaryCall(w, o)
    \/ \E w \in Workers : \E obs \in ObsOutcomes : CacheStore(w, obs)
    \/ \E w \in Workers : Close(w)

SpecThreads == InitThreads /\ [][NextThreads]_vars

----------------------------------------------------------------------------
(* The handler under fair scheduling *)

\* a worker that can take a step takes one
FairSpec == Spec /\ WF_vars(Next)

----------------------------------------------------------------------------
(* Properties *)

Avail(p) == is_provider_available(cooldown, p, now)

Adaptive == mode \in {"adaptive", "hybrid"}

\* the sum of the weights a request got for the providers of the set S
RECURSIVE SumOver(_, _, _)
SumOver(weights, names, S) ==
    IF names = <<>> THEN 0
    ELSE (IF Head(names) \in S THEN weights[Head(names)] ELSE 0) + SumOver(weights, Tail(names), S)

\* C1, as amended: a provider is unavailable exactly up to 300 s after its
\* latest failure that was the third or a later one in a row, and available at
\* every later time; a provider that never failed three times in a row is
\* available.
C1_CooldownFromLatestFailure ==
    \A p \in ProviderSet :
        Avail(p) <=> (tripAt[p] = 0 \/ now > tripAt[p] + 300)

\* C1, witness: a fourth failure in a row, later than the third, keeps the
\* provider unavailable more than 300 s after the third.
C1_Witness ==
    \E p \in ProviderSet :
        /\ streak[p] > 3
        /\ tripAt[p] > third[p]
        /\ now > third[p] + 300
        /\ ~Avail(p)

\* C1, as stated: after the third failure in a row the provider is unavailable
\* up to 300 s after that third failure and available at every later time,
\* whatever happens in between.
C1_CooldownFromThirdFailure ==
    \A p \in ProviderSet :
        third[p] # 0 => (Avail(p) <=> now > third[p] + 300)

\* C2: while the latest result recorded for a provider is a success, its
\* consecutive-failure counter is 0.
C2_SuccessResetsCounter ==
    \A p \in ProviderSet : streak[p] = 0 => stats[p].consecutive_fails = 0

\* C2, witness: a success recorded after three failures, while the provider
\* is in cooldown.
C2_Witness ==
    \E p \in ProviderSet :
        /\ streak[p] = 0
        /\ stats[p].success > 0
        /\ stats[p].fail >= 3
        /\ ~Avail(p)

\* C3, as stated: whenever get_dynamic_weights has returned and a provider was
\* available, the weights of the available providers sum to 1.0.
C3_AvailableWeightsSumToOne ==
    \A w \in Workers :
        (req[w].hasWeights /\ req[w].gdwAvail # {})
            => SumOver(req[w].weights, req[w].wnames, req[w].gdwAvail) = 10

\* C4, as stated: when get_dynamic_weights returns while every provider of the
\* weight map is in cooldown, the mapping it returns has no entries.
C4_EmptyWhenAllCooling ==
    \A w \in Workers :
        (req[w].hasWeights /\ req[w].gdwAvail = {}) => req[w].wnames = <<>>

\* C5: a request that finds an entry younger than 3600 s for its fingerprint
\* is answered with the stored body, and no adapter is invoked for it.
C5_CachedBodyWithoutCall ==
    \A w \in Workers :
        req[w].fresh =>
            /\ req[w].calls = 0
            /\ pc[w] = "responded" =>
                  (req[w].via = "cache" /\ req[w].out = req[w].stored /\ req[w].code = 200)

\* C5, witness: a request answered from an entry that an earlier request stored.
C5_Witness ==
    \E w \in Workers :
        /\ pc[w] = "responded"
        /\ req[w].fresh
        /\ cache[req[w].fp].present
        /\ req[w].out = cache[req[w].fp].body

\* C6, as stated: every cache entry was stored after an adapter call that
\* returned 200.
C6_CachedOnlyAfterSuccess ==
    \A f \in Fingerprints : cache[f].present => cache[f].code = 200

\* C7: when some attempt has status 200, committee returns the body of the
\* first such attempt in invocation order.
C7_FirstSuccessWins ==
    (cm_result.done /\ \E i \in 1..Len(cm_outputs) : cm_outputs[i].code = 200)
        => \E i \in 1..Len(cm_outputs) :
              /\ cm_outputs[i].code = 200
              /\ \A j \in 1..(i - 1) : cm_outputs[j].code # 200
              /\ cm_result.body = cm_outputs[i].body

\* C7, witness: success "x", a failure, success "yy": "x" is returned.
C7_Witness ==
    /\ cm_result.done
    /\ Len(cm_outputs) = 3
    /\ cm_outputs[1].code = 200 /\ cm_outputs[1].body = <<"x">>
    /\ cm_outputs[2].code # 200
    /\ cm_outputs[3].code = 200 /\ cm_outputs[3].body = <<"y", "y">>
    /\ cm_result.body = <<"x">>

\* C8: when there are attempts and none has status 200, committee returns a
\* body of greatest length, the one of the earliest attempt among those.
C8_LongestFailureWins ==
    (cm_result.done /\ cm_outputs # <<>>
                    /\ \A i \in 1..Len(cm_outputs) : cm_outputs[i].code # 200)
        => \E i \in 1..Len(cm_outputs) :
              /\ cm_result.body = cm_outputs[i].body
              /\ \A j \in 1..Len(cm_outputs) :
                    Len(cm_outputs[j].body) <= Len(cm_outputs[i].body)
              /\ \A j \in 1..(i - 1) : Len(cm_outputs[j].body) < Len(cm_outputs[i].body)

\* C8, witness: failures "x", "yy", "zz": "yy" is returned.
C8_Witness ==
    /\ cm_result.done
    /\ Len(cm_outputs) = 3
    /\ \A i \in 1..3 : cm_outputs[i].code # 200
    /\ cm_outputs[1].body = <<"x">>
    /\ cm_outputs[2].body = <<"y", "y">>
    /\ cm_outputs[3].body = <<"z", "z">>
    /\ cm_result.body = <<"y", "y">>

\* C9, as amended: in adaptive or hybrid mode, a request with a sensitive
\* marker in task_id+prompt that misses the cache and whose primary call
\* returns a status is answered by a committee run.
C9_SensitiveEscalates ==
    \A w \in Workers :
        (/\ pc[w] = "responded"
         /\ req[w].path = "chat"
         /\ Adaptive
         /\ IsSensitive(req[w].task_id, req[w].prompt)
         /\ ~req[w].fresh
         /\ req[w].primary \in {"ok", "status"})
            => req[w].via = "committee"

\* C9, witness: a sensitive request whose primary call returned 200 and which
\* the committee answered.
C9_Witness ==
    \E w \in Workers :
        /\ pc[w] = "responded"
        /\ Adaptive
        /\ IsSensitive(req[w].task_id, req[w].prompt)
        /\ req[w].primary = "ok"
        /\ req[w].via = "committee"

\* C9, as stated: in adaptive or hybrid mode every request with a sensitive
\* marker in task_id+prompt is answered by a committee run, whatever the cache
\* holds.
C9_SensitiveAlwaysCommittee ==
    \A w \in Workers :
        (/\ pc[w] = "responded"
         /\ req[w].path = "chat"
         /\ Adaptive
         /\ IsSensitive(req[w].task_id, req[w].prompt))
            => req[w].via = "committee"

\* a keyword of the i-th declared category occurs in the prompt, whatever the case
Matches(i, prompt) ==
    \E k \in 1..Len(ClassifyMap[i].keywords) :
        Contains(Lower(prompt), Lower(ClassifyMap[i].keywords[k]))

\* C10, as amended: classify_task returns the category C when the prompt
\* contains a keyword of C and none of a category declared before C, and
\* "analysis" when the prompt contains no keyword at all.
C10_FirstDeclaredMatch ==
    cl_result # "" =>
        /\ \A i \in 1..Len(ClassifyMap) :
              (Matches(i, cl_prompt) /\ \A j \in 1..(i - 1) : ~Matches(j, cl_prompt))
                  => cl_result = ClassifyMap[i].category
        /\ (\A i \in 1..Len(ClassifyMap) : ~Matches(i, cl_prompt)) => cl_result = "analysis"

\* C10, witness: "Pyo" holds keywords of both categories, one in another case,
\* and is classified as the category declared first.
C10_Witness ==
    /\ cl_prompt = <<"P", "y", "o">>
    /\ Matches(1, cl_prompt)
    /\ Matches(2, cl_prompt)
    /\ cl_result = ClassifyMap[1].category

\* C10, as stated: classify_task returns C for every prompt that contains a
\* keyword of the declared category C, and "analysis" when the prompt
\* contains no keyword at all.
C10_EveryMatch ==
    cl_result # "" =>
        /\ \A i \in 1..Len(ClassifyMap) :
              Matches(i, cl_prompt) => cl_result = ClassifyMap[i].category
        /\ (\A i \in 1..Len(ClassifyMap) : ~Matches(i, cl_prompt)) => cl_result = "analysis"

\* the position of a provider in CONFIG["providers"]
Position(p) == CHOOSE i \in 1..Len(Providers) : Providers[i] = p

\* the providers that were called for a request
Tried(r) ==
    (IF r.primary # "" THEN {r.provider} ELSE {})
        \cup {r.outputs[i].member : i \in 1..Len(r.outputs)}

\* C11, as stated: when the weights of the category have a positive total,
\* pick_provider returns an available provider of greatest weight among the
\* available ones, the first of them in the declared provider order.
C11_PicksBestAvailable ==
    \A w \in Workers :
        (/\ req[w].path = "chat"
         /\ req[w].provider # ""
         /\ SumWeights(req[w].weights, req[w].wnames) > 0)
            => /\ req[w].provider \in req[w].pickAvail
               /\ \A q \in req[w].pickAvail :
                     \/ req[w].weights[q] < req[w].weights[req[w].provider]
                     \/ /\ req[w].weights[q] = req[w].weights[req[w].provider]
                        /\ Position(req[w].provider) <= Position(q)

C13_FallbackExcludesFailed ==
    \A w \in Workers :
        (req[w].path = "chat" /\ Adaptive /\ req[w].primary = "raise")
            => LET r == req[w]
                   others == r.fbAvail \ {r.provider}
                   IsOther(p) == p \in others
               IN  /\ stats[r.provider].fail = r.pfail0 + 1
                   /\ \A i \in 1..Len(r.outputs) : r.outputs[i].member # r.provider
                   /\ pc[w] \in {"cm_call", "cm_done"} =>
                         (others # {} /\ r.cmArg = SelectSeq(Providers, IsOther))
                   /\ pc[w] = "responded" =>
                         \/ /\ r.via = "committee"
                            /\ others # {}
                            /\ r.cmArg = SelectSeq(Providers, IsOther)
                            /\ Len(r.outputs) = Len(r.cmArg)
                         \/ /\ r.via = "error"
                            /\ r.code = 500
                            /\ others = {}
                            /\ r.calls = 1

\* C13, witness: the primary call raised and the three other providers, all
\* available, were called by the committee that answered the request.
C13_Witness ==
    \E w \in Workers :
        /\ pc[w] = "responded"
        /\ req[w].path = "chat"
        /\ req[w].primary = "raise"
        /\ req[w].via = "committee"
        /\ Len(req[w].outputs) = 3
        /\ req[w].provider \notin {req[w].outputs[i].member : i \in 1..3}

\* C14, as stated: a request that arrives while every provider is in cooldown
\* is answered only after providers were tried, and with a failure only after
\* every configured provider was tried for it.
C14_FailureOnlyAfterAllTried ==
    \A w \in Workers :
        (/\ pc[w] = "responded"
         /\ req[w].path = "chat"
         /\ ~req[w].fresh
         /\ mode \in {"adaptive", "hybrid", "committee"}
         /\ req[w].cooling0)
            => /\ req[w].calls > 0
               /\ req[w].code # 200 => Tried(req[w]) = ProviderSet

\* C15: no worker holds perf_lock while it is in an adapter call.
C15_NoLockAcrossCall ==
    \A w \in Workers : pc[w] \in {"call", "cm_call", "anth_call"} => lock # w

\* C15, witness: a worker in the adapter call of a committee member, after the
\* locked sections of the cache check and of an earlier call's recording.
C15_Witness ==
    \E w \in Workers :
        /\ pc[w] = "cm_call"
        /\ req[w].calls > 0
        /\ lock = 0

\* C16, as stated: the status sent for a chat-completion request is the
\* status of the attempt whose body is sent, for a primary response and for a
\* committee result alike.
C16_StatusOfReturnedAttempt ==
    \A w \in Workers :
        (pc[w] = "responded" /\ req[w].path = "chat")
            => /\ req[w].via = "primary" =>
                     /\ req[w].code = AdapterReply(req[w].provider, req[w].primary).code
                     /\ req[w].out = AdapterReply(req[w].provider, req[w].primary).body
               /\ req[w].via = "committee" =>
                     \E i \in 1..Len(req[w].outputs) :
                         /\ req[w].outputs[i].body = req[w].out
                         /\ req[w].outputs[i].code = req[w].code

\* C17, as stated: every GET /health is answered, also one that follows a
\* chat-completion request answered with a provider's success body.
C17_HealthAnswered ==
    \A w \in 1..NumWorkers :
        (pc[w] = "health") ~> (pc[w] = "responded" /\ req[w].path = "health")

\* C18: a failed observability call changes nothing of what the handler does
\* next: after the primary call has returned, the result is cached, the
\* counters and cooldowns stay as they are, and the request escalates exactly
\* when the status is not 200 or a sensitive marker is present, else the
\* primary response is sent; after the primary call has raised, the tables
\* stay as they are and the fallback or the 500 follows; after a committee run
\* its result is sent.
C18_ObservabilityIsInert ==
    [][\A w \in Workers :
          /\ pc[w] = "store" =>
                /\ stats' = stats
                /\ cooldown' = cooldown
                /\ cache' = [cache EXCEPT ![req[w].fp] =
                               [present |-> TRUE, body |-> req[w].out, ts |-> now,
                                code |-> req[w].code]]
                /\ req'[w].code = req[w].code
                /\ req'[w].out = req[w].out
                /\ IF req[w].code # 200 \/ IsSensitive(req[w].task_id, req[w].prompt)
                   THEN pc'[w] = "escalate"
                   ELSE pc'[w] = "responded" /\ req'[w].via = "primary"
          /\ pc[w] = "except" =>
                /\ stats' = stats
                /\ cooldown' = cooldown
                /\ cache' = cache
                /\ IF \E p \in ProviderSet : p # req[w].provider /\ Avail(p)
                   THEN pc'[w] = "committee"
                   ELSE pc'[w] = "responded" /\ req'[w].code = 500
          /\ pc[w] = "cm_done" =>
                /\ stats' = stats
                /\ cooldown' = cooldown
                /\ cache' = cache
                /\ pc'[w] = "responded"
                /\ req'[w].via = "committee"
                /\ req'[w].code = committee_reduce(req[w].outputs).code
                /\ req'[w].out = committee_reduce(req[w].outputs).body]_vars

\* C18, witness: the notifications of a request failed, and the request was
\* answered with the success body of its primary provider, which is cached.
C18_Witness ==
    \E w \in Workers :
        /\ pc[w] = "responded"
        /\ req[w].obsFailed
        /\ req[w].primary = "ok"
        /\ req[w].via = "primary"
        /\ req[w].code = 200
        /\ req[w].calls = 1
        /\ cache[req[w].fp].body = req[w].out

\* C19: while a chat-completion request is handled in a mode that is none of
\* adaptive, hybrid, committee, no counter, cooldown or cache entry changes, no
\* adapter is called for it, and the response it gets is a 400.
C19_InvalidModeRejected ==
    [][\A w \in Workers :
          (mode \notin {"adaptive", "hybrid", "committee"} /\ req'[w].path = "chat")
              => /\ stats' = stats
                 /\ cooldown' = cooldown
                 /\ cache' = cache
                 /\ req'[w].calls = 0
                 /\ pc'[w] \notin {"call", "cm_call"}
                 /\ pc'[w] = "responded" => req'[w].code = 400]_vars

\* C19, witness: a chat-completion request answered with 400 in mode "fast",
\* after calls of /v1/anthropic/messages have left counters behind.
C19_Witness ==
    \E w \in Workers :
        /\ mode = "fast"
        /\ pc[w] = "responded"
        /\ req[w].path = "chat"
        /\ req[w].code = 400
        /\ req[w].calls = 0
        /\ stats["claude"].success + stats["claude"].fail > 0

\* C20: in committee mode a chat-completion request is never answered from the
\* cache or by a primary call; it is answered by a committee run to which the
\* full list of configured providers was passed.
C20_CommitteeOverAllProviders ==
    \A w \in Workers :
        (mode = "committee" /\ req[w].path = "chat")
            => /\ ~req[w].fresh
               /\ req[w].primary = ""
               /\ pc[w] \in {"cm_call", "cm_done", "responded"} => req[w].cmArg = Providers
               /\ pc[w] = "responded" =>
                     (req[w].via = "committee" /\ Len(req[w].outputs) = Len(req[w].members))

\* C20, witness: a request in committee mode answered by a committee run that
\* called all four providers.
C20_Witness ==
    \E w \in Workers :
        /\ mode = "committee"
        /\ pc[w] = "responded"
        /\ req[w].via = "committee"
        /\ req[w].cmArg = Providers
        /\ {req[w].outputs[i].member : i \in 1..Len(req[w].outputs)} = ProviderSet


\* the adapter calls recorded for provider p
CallsOf(st, p) == st[p].success + st[p].fail

\* C21: a request to /v1/anthropic/messages is answered after exactly one adapter
\* call, made to "claude" and to no other provider, in every mode and also while
\* "claude" is in cooldown; no step of it changes the cache, none consults it and
\* none collects committee attempts.
C21_AnthropicCallsClaudeOnce ==
    [][\A w \in Workers :
          req'[w].path = "anthropic" =>
              /\ cache' = cache
              /\ ~req'[w].fresh /\ req'[w].stored = <<>>
              /\ req'[w].outputs = <<>> /\ req'[w].members = <<>>
              /\ req'[w].provider = "claude"
              /\ pc'[w] \in {"anth_call", "responded", "idle"}
              /\ \A p \in ProviderSet \ {"claude"} : stats'[p] = stats[p]
              /\ pc'[w] = "anth_call" => stats' = stats
              /\ (pc[w] = "anth_call" /\ pc'[w] = "responded") =>
                    /\ CallsOf(stats', "claude") = CallsOf(stats, "claude") + 1
                    /\ req'[w].calls = 1
                    /\ req'[w].via \in {"primary", "error"}]_vars

\* an anthropic request answered by a call made while "claude" was in cooldown,
\* in a mode that is not a routing mode
C21_Witness ==
    \E w \in Workers :
        /\ pc[w] = "responded" /\ req[w].path = "anthropic" /\ req[w].calls = 1
        /\ mode = "fast"
        /\ streak["claude"] = 4
        /\ ~Avail("claude")


\* worker w is at a lookup or insert of the cache and needs perf_lock for it
AtCacheOp(w) == pc[w] \in {"cache", "store"}

\* worker w is inside the with-block of its cache lookup
InCacheOp(w) == lock = w /\ pc[w] = "cache_send"

NetworkStates == {"call", "cm_call", "anth_call", "cache_send"}

\* C23: in no reachable state is perf_lock held by a worker that is in a network
\* operation, so no cache lookup and no cooldown lookup waits for network I/O.
C23_NoLockDuringNetwork ==
    \A w \in Workers : pc[w] \in NetworkStates => lock # w


\* the declared categories with a keyword occurring in the prompt, whatever the case
Matching(prompt) == {i \in 1..Len(ClassifyMap) : Matches(i, prompt)}

\* the first position of the prompt at which a keyword of the i-th category starts
FirstAt(i, prompt) ==
    LET At == {n \in 1..Len(prompt) :
                  \E k \in 1..Len(ClassifyMap[i].keywords) :
                      LET kw == Lower(ClassifyMap[i].keywords[k]) IN
                      /\ n + Len(kw) - 1 <= Len(prompt)
                      /\ \A j \in 1..Len(kw) : Lower(prompt)[n + j - 1] = kw[j]}
    IN  CHOOSE n \in At : \A m \in At : n <= m

\* C24: when keywords of one or more categories occur in the prompt, as
\* substrings and whatever their case, classify_task returns the matching
\* category that is declared earliest, wherever in the prompt the keywords are.
C24_EarliestDeclaredWins ==
    (cl_result # "" /\ Matching(cl_prompt) # {}) =>
        \E i \in Matching(cl_prompt) :
            /\ \A j \in Matching(cl_prompt) : i <= j
            /\ cl_result = ClassifyMap[i].category

\* a prompt in which a keyword of the second category comes before a keyword
\* of the first, written in another case, and which is classified as the first
C24_Witness ==
    /\ cl_result = ClassifyMap[1].category
    /\ Matching(cl_prompt) = {1, 2}
    /\ FirstAt(2, cl_prompt) < FirstAt(1, cl_prompt)
    /\ \E n \in 1..Len(cl_prompt) : cl_prompt[n] = "P"


\* the latencies of the calls of a history, in call order
LatenciesOf(history) == [i \in 1..Len(history) |-> history[i].latency]

\* the last n elements of a sequence
LastN(s, n) == SubSeq(s, Len(s) - n + 1, Len(s))

\* C25: after any sequence of record_provider_result calls the latency window
\* holds the latencies of the most recent min(n, 100) of all n recorded calls,
\* successes and failures alike, in call order.
C25_WindowOfAllCalls ==
    LET n == Len(lat_history)
        m == IF n < LATENCY_WINDOW THEN n ELSE LATENCY_WINDOW
    IN  lat_window = LastN(LatenciesOf(lat_history), m)

C26_CoolingWeightZero ==
    \A w \in Workers :
        req[w].hasWeights =>
            \A i \in 1..Len(req[w].wnames) :
                req[w].wnames[i] \notin req[w].gdwAvail
                    => req[w].weights[req[w].wnames[i]] = 0


\* the cache check of request r found an entry of age 3600 s or more
Stale(r) == ~r.fresh /\ r.stored # <<>>

\* C29: a request is answered from the cache only when its entry was younger
\* than 3600 s at the check; a request that found an entry of age 3600 s or
\* more is not answered from it and not without an adapter call, and its store
\* replaces the entry by the new body with the time of the store; no step
\* removes an entry.
C29_ServedOnlyWhileYoung ==
    [][/\ \A f \in Fingerprints : cache[f].present => cache'[f].present
       /\ \A w \in Workers :
             /\ req'[w].via = "cache" => req'[w].fresh
             /\ (Stale(req'[w]) /\ pc'[w] = "responded") =>
                   (req'[w].via # "cache" /\ req'[w].calls >= 1)
             /\ (/\ pc[w] = "cache"
                 /\ cache[req[w].fp].present
                 /\ now - cache[req[w].fp].ts >= CACHE_TTL) =>
                   (pc'[w] = "route" /\ Stale(req'[w]))
             /\ (Stale(req[w]) /\ pc[w] = "store") =>
                   /\ cache'[req[w].fp].present
                   /\ cache'[req[w].fp].body = req[w].out
                   /\ cache'[req[w].fp].ts = now]_vars

\* an entry stored at time 1 is found at age exactly 3600 s, the primary
\* provider is called and its answer, another body, has replaced the entry
C29_Witness ==
    \E w \in Workers :
        /\ Stale(req[w])
        /\ pc[w] = "escalate"
        /\ req[w].calls = 1
        /\ now = 1 + CACHE_TTL
        /\ cache[req[w].fp].ts = now
        /\ cache[req[w].fp].body = req[w].out
        /\ req[w].out # req[w].stored


\* the two prompts agree on their first 500 characters
SamePrefix == Take(fp_in[1].prompt, FINGERPRINT_CHARS) = Take(fp_in[2].prompt, FINGERPRINT_CHARS)

\* C30, as amended: two requests have the same fingerprint, and so share a
\* cache entry, exactly when their prompts are classified alike and agree on
\* the first 500 characters, whatever their task_id, their max_tokens and the
\* text after character 500.
C30_SameCategoryAndPrefix ==
    fp_out # <<>> =>
        (fp_out[1].fp = fp_out[2].fp <=> (fp_out[1].kind = fp_out[2].kind /\ SamePrefix))

\* two requests that differ in task_id, max_tokens and the text after
\* character 500, are classified alike and have the same fingerprint
C30_Witness ==
    /\ fp_out # <<>>
    /\ fp_in[1].task_id # fp_in[2].task_id
    /\ fp_in[1].max_tokens # fp_in[2].max_tokens
    /\ Len(fp_in[1].prompt) > FINGERPRINT_CHARS
    /\ SamePrefix
    /\ fp_in[1].prompt # fp_in[2].prompt
    /\ fp_out[1].fp = fp_out[2].fp

\* C30, as stated: the same fingerprint exactly when the category and the first
\* 500 characters are the same, and requests that differ only in task_id,
\* max_tokens or the text after character 500 have the same fingerprint.
C30_SuffixNeverMatters ==
    fp_out # <<>> =>
        /\ fp_out[1].fp = fp_out[2].fp <=> (fp_out[1].kind = fp_out[2].kind /\ SamePrefix)
        /\ SamePrefix => fp_out[1].fp = fp_out[2].fp


\* the members committee calls, given its argument and the providers that were
\* available when it started
CalledMembers(members, avail) ==
    LET IsIn(p) == p \in avail IN
    IF SelectSeq(members, IsIn) = <<>> THEN members ELSE SelectSeq(members, IsIn)

\* C31: a committee run calls the members of its argument that are not in
\* cooldown, or all of them when every one is in cooldown, each once and in
\* the order of the argument; a call that raises leaves an attempt with a
\* status other than 200 in its position, and the run goes on to the end.
C31_CommitteeCallsAvailableInOrder ==
    \A w \in Workers :
        req[w].cmArg # <<>> =>
            LET r == req[w] IN
            /\ r.members = CalledMembers(r.cmArg, r.cmAvail)
            /\ Len(r.outputs) <= Len(r.members)
            /\ \A i \in 1..Len(r.outputs) :
                  /\ r.outputs[i].member = r.members[i]
                  /\ r.outputs[i].body = ErrorBody(ErrMsg) => r.outputs[i].code # HTTP_OK
            /\ pc[w] = "cm_call" => (r.idx = Len(r.outputs) + 1 /\ r.idx <= Len(r.members))
            /\ pc[w] \in {"cm_done", "responded"} =>
                  (Len(r.outputs) = Len(r.members) /\ r.via \in {"", "committee"})

\* a run that left out a member in cooldown, whose first call raised and which
\* went on to call the next member
C31_Witness ==
    \E w \in Workers :
        /\ pc[w] = "cm_call"
        /\ req[w].cmAvail # {} /\ req[w].cmAvail # ProviderSet
        /\ Len(req[w].members) < Len(req[w].cmArg)
        /\ Len(req[w].outputs) = 2
        /\ req[w].outputs[1].body = ErrorBody(ErrMsg)
        /\ req[w].outputs[1].code = 0
        /\ req[w].outputs[2].member = req[w].members[2]


\* the request's primary call returned a status that is not 200, or a sensitive
\* marker occurs in task_id+prompt
MustEscalate(r) == r.primary = "status" \/ IsSensitive(r.task_id, r.prompt)

\* the request is past the store that follows a primary call that returned
PastStore(w) ==
    /\ req[w].path = "chat" /\ Adaptive
    /\ req[w].primary \in {"ok", "status"}
    /\ pc[w] # "store"

\* the providers in declared order that belong to the set avail
InOrder(avail) == LET IsIn(p) == p \in avail IN SelectSeq(Providers, IsIn)

\* C32, as amended: after a primary call that returned a status, a committee
\* run happens exactly when the status is not 200 or the request is sensitive;
\* it is given all providers available at that moment, or all configured
\* providers when none is available, and its result is what is sent; without
\* it the primary response is sent after exactly one adapter call.
C32_EscalationOverAvailableOrAll ==
    \A w \in Workers :
        PastStore(w) =>
            LET r == req[w] IN
            /\ pc[w] \in {"escalate", "committee", "cm_call", "cm_done", "responded"}
            /\ pc[w] # "responded" => MustEscalate(r)
            /\ r.cmArg # <<>> =>
                  /\ MustEscalate(r)
                  /\ r.cmArg = IF r.cmAvail = {} THEN Providers ELSE InOrder(r.cmAvail)
            /\ pc[w] = "responded" =>
                  IF MustEscalate(r)
                  THEN /\ r.via = "committee"
                       /\ r.code = committee_reduce(r.outputs).code
                       /\ r.out = committee_reduce(r.outputs).body
                  ELSE /\ r.via = "primary"
                       /\ r.calls = 1
                       /\ r.outputs = <<>>
                       /\ r.out = AdapterReply(r.provider, "ok").body

\* a sensitive request whose primary call returned 200 while every provider was
\* in cooldown, answered by a committee run over all configured providers
C32_Witness ==
    \E w \in Workers :
        /\ PastStore(w)
        /\ pc[w] = "responded"
        /\ req[w].primary = "ok"
        /\ IsSensitive(req[w].task_id, req[w].prompt)
        /\ req[w].cmAvail = {}
        /\ req[w].cmArg = Providers
        /\ req[w].via = "committee"

\* C32, as stated: the committee run of an escalation is given the providers
\* that are available at that moment.
C32_EscalationOverAvailable ==
    \A w \in Workers :
        PastStore(w) =>
            LET r == req[w] IN
            /\ r.cmArg # <<>> => (MustEscalate(r) /\ r.cmArg = InOrder(r.cmAvail))
            /\ pc[w] = "responded" =>
                  IF MustEscalate(r) THEN r.via = "committee"
                  ELSE r.via = "primary" /\ r.calls = 1


\* C33: the consecutive-failure counter counts the failures since the last
\* success, whether or not a cooldown has expired in between; so a failure
\* recorded after three or more in a row, also one that comes after the
\* deadline has passed, sets the deadline to 300 s after that failure.
C33_CounterSurvivesExpiry ==
    \A p \in ProviderSet :
        /\ stats[p].consecutive_fails = streak[p]
        /\ streak[p] > FAIL_THRESHOLD =>
              /\ cooldown[p] = tripAt[p] + COOLDOWN_DURATION
              /\ now <= tripAt[p] + COOLDOWN_DURATION => ~Avail(p)

\* a fourth failure in a row recorded after the cooldown of the third had
\* expired: the provider is in cooldown again, until 300 s after that failure
C33_Witness ==
    \E p \in ProviderSet :
        /\ streak[p] = FAIL_THRESHOLD + 1
        /\ tripAt[p] > third[p] + COOLDOWN_DURATION
        /\ now = tripAt[p]
        /\ cooldown[p] = now + COOLDOWN_DURATION
        /\ ~Avail(p)


\* C34: the cooldown table is written by failures only: the entry of a provider
\* is the deadline its latest third-or-later failure in a row has set, and no
\* entry before such a failure; a success recorded since then has neither
\* removed nor changed it, and the provider stays unavailable until the clock
\* has passed the deadline.
C34_OnlyTimeEndsCooldown ==
    \A p \in ProviderSet :
        /\ cooldown[p] = IF tripAt[p] = 0 THEN 0 ELSE tripAt[p] + COOLDOWN_DURATION
        /\ (tripAt[p] # 0 /\ now <= tripAt[p] + COOLDOWN_DURATION) =>
              ~is_provider_available(cooldown, p, now)

\* a success of a provider recorded during its cooldown: the counter is back
\* at 0, the deadline stands and the provider is still unavailable
C34_Witness ==
    \E p \in ProviderSet :
        /\ stats[p].consecutive_fails = 0
        /\ stats[p].success = 1
        /\ tripAt[p] # 0
        /\ cooldown[p] = tripAt[p] + COOLDOWN_DURATION
        /\ now < cooldown[p]
        /\ ~is_provider_available(cooldown, p, now)


\* worker w holds perf_lock and is at a call of is_provider_available, which
\* takes perf_lock
Reacquires(w) == lock = w /\ pc[w] \in {"gdw_loop", "health_loop"}

\* C35: no worker ever tries to take perf_lock while it holds it.
C35_NoReacquire ==
    \A w \in Workers : ~Reacquires(w)


\* worker w is at an adapter call that the bound on the number of calls keeps
\* from returning
CallPending(w) == pc[w] \in {"call", "cm_call"} /\ TotalCalls - calls0 >= MaxCalls

\* C36: every chat-completion request that has been received is eventually
\* responded to, as long as its adapter calls return or raise.
C36_ChatEventuallyResponded ==
    \A w \in 1..NumWorkers :
        (req[w].path = "chat" /\ pc[w] = "cache")
            ~> (pc[w] = "responded" \/ CallPending(w))


\* C37: whatever the interleaving of the workers, for every provider the
\* success and failure counters add up to the number of its adapter calls that
\* have completed, and the consecutive-failure counter is the number of its
\* failures since its last success.
C37_NoLostUpdate ==
    \A p \in ProviderSet :
        /\ stats[p].success + stats[p].fail = ncalls[p]
        /\ stats[p].consecutive_fails = streak[p]
        /\ stats[p].consecutive_fails <= stats[p].fail

\* two workers have called the same provider at the same time: both calls
\* have completed, one failed, and neither request has gone on yet
C37_Witness ==
    \E p \in ProviderSet :
        /\ \A w \in Workers :
              /\ req[w].provider = p /\ req[w].calls = 1
              /\ pc[w] \in {"store", "except"}
        /\ \E w \in Workers : req[w].primary = "ok"
        /\ \E w \in Workers : req[w].primary # "ok"
        /\ ncalls[p] = Cardinality(Workers)
        /\ stats[p].success = 1 /\ stats[p].fail = 1


\* C38: the body a request has stored in the cache is the body that was sent
\* to its caller, also when the request was escalated to the committee.
C38_CachedBodyIsSentBody ==
    \A w \in Workers :
        (PastStore(w) /\ pc[w] = "responded") =>
            /\ cache[req[w].fp].present
            /\ cache[req[w].fp].body = req[w].out


\* the adapter calls to provider p made for request r so far
CallsFor(r, p) ==
    (IF r.primary # "" /\ r.provider = p THEN 1 ELSE 0)
        + Cardinality({i \in 1..Len(r.outputs) : r.outputs[i].member = p})

\* C39: the handling of one chat-completion request calls each provider at
\* most once.
C39_EachProviderOncePerRequest ==
    \A w \in Workers :
        req[w].path = "chat" => \A p \in ProviderSet : CallsFor(req[w], p) <= 1


\* worker w has missed the cache for its fingerprint and the adapter has been
\* invoked for its request
Invoking(w) == req[w].path = "chat" /\ ~req[w].fresh /\ req[w].primary # ""

====
